---- MODULE Spec2Model ----
(***************************************************************************)
(* Model of the adapters package (src/adapters): one adapter instance      *)
(* (YahooFinanceAdapter, NewsAdapter or SECAdapter) from process start,    *)
(* through construction with its optional health check, to its fetch       *)
(* calls.  The third-party services are the environment: every outcome of  *)
(* a live call is an input the actions draw from a bounded set.            *)
(* Python str values are TLA+ strings; JSON values are tagged records.     *)
(***************************************************************************)
EXTENDS Integers, Sequences, FiniteSets, TLC

VARIABLES
    kind,       \* class of the adapter instance: "Yahoo", "News" or "SEC"
    env,        \* value of the adapter's credential environment variable
    hashOf,     \* this run's str hash (PYTHONHASHSEED fixes it per process)
    pc,         \* "new" before __init__, "ready" after it, "failed" if it raised
    api_key,    \* APIDataAdapter.api_key
    session,    \* NewsAdapter.session
    healthy,    \* baseDataAdapter._health_check_passed
    message,    \* baseDataAdapter._health_check_message
    stub,       \* baseDataAdapter._stub
    error,      \* message of the RuntimeError __init__ raised, or NoError
    ctor,       \* arguments of __init__ and what its health check returned
    probe,      \* steps the last health-check run executed, in order
    rng,        \* state of numpy's global random generator
    call,       \* the last fetch call: operation, inputs, control path taken
    ret,        \* what the last fetch call returned
    seen        \* per ticker identity, the stub price series generated so far
                \* and the number of stub fetches (counted up to MaxFetches)

vars == <<kind, env, hashOf, pc, api_key, session, healthy, message, stub,
          error, ctor, probe, rng, call, ret, seen>>

----------------------------------------------------------------------------
(* Bounds of the model *)

MaxArticles == 2    \* longest live article list
MaxFilings == 2     \* longest live filings list
MaxLimit == 2       \* largest `limit` passed to latest_filings
HashRange == 1      \* hash(ticker) % 2**32 ranges over 0..HashRange
RngStates == 7      \* number of states of the random generator
MaxFetches == 2     \* stub fetches counted per ticker identity
MaxChainLen == 4    \* longest article list of the chain specification

(* Program constants *)

StubPeriods == 30       \* periods=30 of the stub date range
SnippetLen == 100       \* texts[i][:100]
DefaultK == 2           \* _summarize(..., k=2)
MaxSamples == 3         \* min(3, len(texts))
StubPairLen == 2        \* len(items) == 2
BasePrice == 100        \* 100 + hash % 200
BaseSpread == 200
DateLen == 10           \* f.get('filedAt', '')[:10]
ErrTextLen == 100       \* str(e)[:100]

Min(a, b) == IF a < b THEN a ELSE b

----------------------------------------------------------------------------
(* Python values *)

None == [j |-> "null"]
JStr(s) == [j |-> "str", s |-> s]
JNum(n) == [j |-> "num", n |-> n]
JList(l) == [j |-> "list", v |-> l]
JObj(d) == [j |-> "obj", v |-> d]

\* dict.get(key, default) on the fields of a JSON object
Get(d, key, default) == IF key \in DOMAIN d THEN d[key] ELSE default

\* str(x) of a JSON scalar
Str(x) ==
    CASE x.j = "str"  -> x.s
      [] x.j = "null" -> "None"
      [] x.j = "num"  -> ToString(x.n)
      [] OTHER        -> "?"

\* truth value of an optional string (None and '' are falsy)
Truthy(x) == x.j = "str" /\ Len(x.s) > 0

----------------------------------------------------------------------------
(* str methods and the two regular expressions of news.py *)

UpperChars == "ABCDEFGHIJKLMNOPQRSTUVWXYZ"
LowerChars == "abcdefghijklmnopqrstuvwxyz"
Digits == "0123456789"

CharAt(s, i) == SubSeq(s, i, i)
Chars(s) == {CharAt(s, i) : i \in 1..Len(s)}
Drop(s, n) == SubSeq(s, n + 1, Len(s))
IsSpace(c) == c \in {" ", "\t", "\n", "\r", "\f"}
IsDigit(c) == c \in Chars(Digits)

\* k in t
Contains(k, t) ==
    \E i \in 1..(Len(t) - Len(k) + 1) : SubSeq(t, i, i + Len(k) - 1) = k

\* t.startswith(p)
StartsWith(t, p) == Len(t) >= Len(p) /\ SubSeq(t, 1, Len(p)) = p

\* the letters' images under lower() and upper()
LowerOf ==
    [c \in Chars(UpperChars) |->
        CharAt(LowerChars, CHOOSE i \in 1..Len(UpperChars) : CharAt(UpperChars, i) = c)]
UpperOf ==
    [c \in Chars(LowerChars) |->
        CharAt(UpperChars, CHOOSE i \in 1..Len(LowerChars) : CharAt(LowerChars, i) = c)]

LowerChar(c) == IF c \in DOMAIN LowerOf THEN LowerOf[c] ELSE c
UpperChar(c) == IF c \in DOMAIN UpperOf THEN UpperOf[c] ELSE c

\* concatenation of pieces[lo..hi]
RECURSIVE Cat(_, _, _)
Cat(pieces, lo, hi) ==
    IF lo > hi THEN ""
    ELSE IF lo = hi THEN pieces[lo]
    ELSE LET mid == (lo + hi) \div 2
         IN  Cat(pieces, lo, mid) \o Cat(pieces, mid + 1, hi)

\* s.lower()
Lower(s) == Cat([i \in 1..Len(s) |-> LowerChar(CharAt(s, i))], 1, Len(s))

\* s.upper()
Upper(s) == Cat([i \in 1..Len(s) |-> UpperChar(CharAt(s, i))], 1, Len(s))

RECURSIVE LStrip(_)
LStrip(s) == IF Len(s) > 0 /\ IsSpace(CharAt(s, 1)) THEN LStrip(Drop(s, 1)) ELSE s

RECURSIVE RStrip(_)
RStrip(s) ==
    IF Len(s) > 0 /\ IsSpace(CharAt(s, Len(s)))
    THEN RStrip(SubSeq(s, 1, Len(s) - 1)) ELSE s

\* s.strip()
Strip(s) == RStrip(LStrip(s))

\* re.sub(r'\s+', ' ', s): every maximal run of whitespace becomes one space
CollapseSpace(s) ==
    Cat([i \in 1..Len(s) |->
            IF ~IsSpace(CharAt(s, i)) THEN CharAt(s, i)
            ELSE IF i > 1 /\ IsSpace(CharAt(s, i - 1)) THEN ""
            ELSE " "], 1, Len(s))

\* length of the longest prefix of s made of digits
RECURSIVE DigitRun(_)
DigitRun(s) ==
    IF Len(s) > 0 /\ IsDigit(CharAt(s, 1)) THEN 1 + DigitRun(Drop(s, 1)) ELSE 0

\* length of the match of \$\s?\d+(?:\.\d+)? at the start of s, 0 if none
MoneyMatch(s) ==
    IF ~StartsWith(s, "$") THEN 0
    ELSE LET sp == IF Len(s) > 1 /\ IsSpace(CharAt(s, 2)) THEN 1 ELSE 0
             d == DigitRun(Drop(s, 1 + sp))
             rest == Drop(s, 1 + sp + d)
             frac == IF StartsWith(rest, ".") THEN DigitRun(Drop(rest, 1)) ELSE 0
         IN  IF d = 0 THEN 0
             ELSE 1 + sp + d + (IF frac > 0 THEN 1 + frac ELSE 0)

\* set(re.findall(r'\$\s?\d+(?:\.\d+)?', s)).  A match holds no `$` after
\* its first character, so no match starts inside another one.
FindMoney(s) ==
    { SubSeq(s, i, i + MoneyMatch(Drop(s, i - 1)) - 1) :
        i \in {k \in 1..Len(s) : CharAt(s, k) = "$" /\ MoneyMatch(Drop(s, k - 1)) > 0} }

----------------------------------------------------------------------------
(* NewsAdapter: the classification pipeline *)

POS == {"beat", "raise", "growth", "record", "surge", "expand"}
NEG == {"miss", "cut", "decline", "lawsuit", "drop", "recall", "probe"}
LabelKeys == {"mixed", "positive", "negative", "neutral"}

\* an item supports a.get(...) only if it is a dict
IsDict(a) == a.j = "obj"

ArticleTextNoLower(a) ==
    Strip(CollapseSpace(
        Str(Get(a.v, "title", JStr(""))) \o " " \o
        Str(Get(a.v, "description", JStr(""))) \o " " \o
        Str(Get(a.v, "content", JStr("")))))

\* the normalized text of one article
ArticleText(a) ==
    Lower(Strip(CollapseSpace(
        Str(Get(a.v, "title", JStr(""))) \o " " \o
        Str(Get(a.v, "description", JStr(""))) \o " " \o
        Str(Get(a.v, "content", JStr(""))))))

\* _preprocess: one normalized string per article, order preserved
Preprocess(items) == [i \in 1..Len(items) |-> ArticleText(items[i])]

ClassifyTextMixedLast(t) ==
    LET has_pos == \E k \in POS : Contains(k, t)
        has_neg == \E k \in NEG : Contains(k, t)
    IN  IF has_pos THEN "positive"
        ELSE IF has_neg THEN "negative"
        ELSE IF has_pos /\ has_neg THEN "mixed"
        ELSE "neutral"

\* classify_text
ClassifyText(t) ==
    LET has_pos == \E k \in POS : Contains(k, t)
        has_neg == \E k \in NEG : Contains(k, t)
    IN  IF has_pos /\ has_neg THEN "mixed"
        ELSE IF has_pos THEN "positive"
        ELSE IF has_neg THEN "negative"
        ELSE "neutral"

\* _classify
Classify(texts) == [i \in 1..Len(texts) |-> ClassifyText(texts[i])]

\* _extract
Extract(texts) == [i \in 1..Len(texts) |-> [money |-> FindMoney(texts[i])]]

\* labels.count(s)
Count(labels, s) == Cardinality({i \in 1..Len(labels) : labels[i] = s})

CountsFoundOnly(labels) ==
    [s \in {labels[i] : i \in 1..Len(labels)} |-> Count(labels, s)]

\* the counts dict of _summarize
Counts(labels) == [s \in LabelKeys |-> Count(labels, s)]

\* _summarize
Summarize(labels, texts, k) ==
    [summary_text |-> "...",
     counts |-> Counts(labels),
     snippets |-> [i \in 1..Min(k, Len(texts)) |->
                      "- " \o labels[i] \o ": "
                      \o SubSeq(texts[i], 1, Min(SnippetLen, Len(texts[i]))) \o "..."]]

IsStubFlagNoSession(sess, items) == sess = None

IsStubFlagAtMostPair(sess, items) == sess = None \/ Len(items) <= StubPairLen

\* the is_stub entry of run_chain's result
IsStubFlag(sess, items) == sess = None \/ Len(items) = StubPairLen

ChainResultAllSamples(sess, items) ==
    LET texts == Preprocess(items)
        labels == Classify(texts)
        extracts == Extract(texts)
        summary == Summarize(labels, texts, DefaultK)
    IN  [type |-> "news",
         counts |-> summary.counts,
         samples |-> [i \in 1..Len(texts) |->
                         [text |-> texts[i], sentiment |-> labels[i],
                          entities |-> extracts[i]]],
         summary |-> summary,
         is_stub |-> IsStubFlag(sess, items)]

\* the dict run_chain returns for the ingested items
ChainResult(sess, items) ==
    LET texts == Preprocess(items)
        labels == Classify(texts)
        extracts == Extract(texts)
        summary == Summarize(labels, texts, DefaultK)
    IN  [type |-> "news",
         counts |-> summary.counts,
         samples |-> [i \in 1..Min(MaxSamples, Len(texts)) |->
                         [text |-> texts[i], sentiment |-> labels[i],
                          entities |-> extracts[i]]],
         summary |-> summary,
         is_stub |-> IsStubFlag(sess, items)]

\* _get_stub_data of NewsAdapter: the two stub articles
NewsStubData(ticker, now) ==
    << JObj([title |-> JStr("[Stub] Growth story for " \o ticker),
             description |-> JStr(ticker \o " gains as services growth improves"),
             content |-> JStr("..."),
             publishedAt |-> JNum(now)]),
       JObj([title |-> JStr("[Stub] Miss story for " \o ticker),
             description |-> JStr(ticker \o " faces supply chain miss and margin pressure"),
             content |-> JStr("..."),
             publishedAt |-> JNum(now - 3600)]) >>

----------------------------------------------------------------------------
(* The environment: what a live call can produce *)

\* exceptions a live call raises: type name and str(e)
Exceptions ==
    { [type |-> "ConnectionError", text |-> "connection refused"],
      [type |-> "Timeout", text |-> ""] }

BoundedSeq(S, n) == UNION {[1..m -> S] : m \in 0..n}

\* article dicts of a NewsAPI response
BeatArticle == JObj([title |-> JStr("Q3 Beat"), description |-> JStr(" up  ")])
MissArticle == JObj([title |-> JStr("Miss"), description |-> None])

Articles ==
    { BeatArticle,
      MissArticle,
      JObj([title |-> JStr("SURGE"), description |-> JStr("\tdrop $ 5.5"),
            content |-> JStr("$5 $5 ")]),
      JObj([title |-> JStr("cut"), content |-> JStr("beat beat")]),
      JObj(<<>>) }

\* an article whose normalized text is longer than a snippet, with its cue
\* word past the cut
LongArticle ==
    JObj([title |-> JStr("Apple posts $ 5.5 billion quarter as services and wearables lift revenue; analysts on the street now expect a RECORD year")])

\* articles of the responses whose lists are longer than the sample and
\* snippet limits
ChainArticles == {LongArticle, BeatArticle, MissArticle}

\* filing dicts of a sec-api response
Filings ==
    { JObj([formType |-> JStr("10-K"), filedAt |-> JStr("2025-01-02T10:00:00-04:00"),
            companyName |-> JStr("Apple Inc"), linkToFilingDetails |-> JStr("https://sec/x")]),
      JObj([formType |-> JStr("10-Q"), filedAt |-> None]),
      JObj(<<>>) }

\* bodies of an HTTP response: json() raises, or yields a JSON value
Bodies(field, elems, n) ==
    { [parse |-> FALSE] } \cup
    { [parse |-> TRUE, json |-> x] :
        x \in { JList(<<>>), JObj(<<>>), JObj([f \in {field} |-> None]),
                JObj([f \in {field} |-> JStr("ab")]) } \cup
              { JObj([f \in {field} |-> JList(l)]) : l \in BoundedSeq(elems \cup {None}, n) } }

\* outcomes of requests.get / Session.get
Http(bodies) ==
    { [t |-> "raise", exc |-> e] : e \in Exceptions } \cup
    { [t |-> "response", status |-> 500, body |-> [parse |-> FALSE]] } \cup
    { [t |-> "response", status |-> 200, body |-> b] : b \in bodies }

NewsHttp == Http(Bodies("articles", Articles, MaxArticles))

\* a response of NewsAPI whose body is {"articles": l}
ArticlesResponse(l) ==
    [t |-> "response", status |-> 200,
     body |-> [parse |-> TRUE, json |-> JObj([articles |-> JList(l)])]]

SECHttp == Http(Bodies("filings", Filings, MaxFilings))

\* price frames of yfinance: name of the index, data columns, rows.  A
\* negative date or close stands for NaT / NaN.
Row(ix, col, v) == [ix |-> ix, c |-> [x \in {col} |-> v]]

Frames ==
    { [iname |-> "Date", cols |-> {"Close"}, rows |-> <<>>],
      [iname |-> "Date", cols |-> {"Close"},
       rows |-> <<Row(2, "Close", 10), Row(1, "Close", 11)>>],
      [iname |-> "Date", cols |-> {"Close"}, rows |-> <<Row(1, "Close", -1)>>],
      [iname |-> "Datetime", cols |-> {"Adj Close"},
       rows |-> <<Row(1, "Adj Close", 10), Row(-1, "Adj Close", 10)>>],
      [iname |-> "Date", cols |-> {"Open"}, rows |-> <<Row(1, "Open", 10)>>] }

\* outcomes of Ticker.history: an exception, None, or a frame (maybe empty)
HistoryOutcomes ==
    { [t |-> "raise", exc |-> e] : e \in Exceptions } \cup
    { [t |-> "none"] } \cup
    { [t |-> "frame", df |-> f] : f \in Frames }

IsNull(v) == v < 0
IsEmptyFrame(df) == Len(df.rows) = 0

\* raw ticker arguments and the identities they sanitize to
RawTickers == {"aapl", "$AAPL", " msft "}
TickerIds == {"AAPL", "MSFT"}

\* raw tickers of the calls that keep no per-ticker state
WideRawTickers == RawTickers \cup {"$ aapl", "$$aapl", "\tbrk.b\n"}

\* outcomes of Ticker.info: an exception, None, or a dict (maybe empty)
InfoOutcomes ==
    { [t |-> "raise", exc |-> e] : e \in Exceptions } \cup
    { [t |-> "info", v |-> x] :
        x \in { None, JObj(<<>>),
                JObj([longName |-> JStr("Apple Inc."), source |-> JStr("yahoo")]) } }

\* statement tables of yfinance: columns are fiscal periods, rows line items
EmptyTable == [cols |-> {}, rows |-> <<>>]
Statements ==
    { EmptyTable,
      [cols |-> {"2024-09-30"}, rows |-> <<>>],
      [cols |-> {"2024-09-30"}, rows |-> <<[item |-> "Total Revenue", v |-> 10]>>] }

\* outcomes of Ticker.financials / .balance_sheet / .cashflow
StatementOutcomes ==
    { [t |-> "raise", exc |-> e] : e \in Exceptions } \cup
    { [t |-> "none"] } \cup
    { [t |-> "frame", df |-> f] : f \in Statements }

\* df.empty: an axis of length 0
IsEmptyTable(df) == df.cols = {} \/ Len(df.rows) = 0

\* the period argument of fetch_prices: its default, and the values callers
\* pass; the span of a period in days
DefaultPeriod == "6mo"
Periods == {"5d", "1mo", "6mo"}
PeriodDays(p) == CASE p = "5d" -> 5 [] p = "1mo" -> 30 [] OTHER -> 180

\* readings of the wall clock: days for pd.Timestamp.today, seconds for time.time
Days == {100, 101}
Clock == {7200, 7201}

\* values of the credential variable: unset, empty, set
EnvValues == {None, JStr(""), JStr("k3y")}

----------------------------------------------------------------------------
(* YahooFinanceAdapter *)

\* _sanitize_ticker
SanitizeTicker(ticker) ==
    LET t == Strip(ticker)
    IN  IF StartsWith(t, "$") THEN Upper(Drop(t, 1)) ELSE Upper(t)

\* the random generator: the values drawn in a state; each draw steps the
\* state by 3
Normal(s) == (s % 5) - 2
Randint(s) == 1 + (s % 3)

\* the state n draws after state s
RngAfter(s, n) == (s + 3 * n) % RngStates

\* np.cumsum of n normal draws made from state s on
RECURSIVE CumSum(_, _)
CumSum(s, n) ==
    IF n = 0 THEN <<>>
    ELSE LET before == CumSum(s, n - 1)
             last == IF n = 1 THEN 0 ELSE before[n - 1]
         IN  Append(before, last + Normal(RngAfter(s, n)))

StubSeedKeep(ticker, r) == r

\* np.random.seed(hash(ticker) % (2**32)): the generator state from which
\* the stub draws, whatever state r it was in
StubSeed(ticker, r) == hashOf[ticker] % RngStates

\* base * exp(logret) * pct / 100, kept symbolic
Price(base, logret, pct) == [base |-> base, logret |-> logret, pct |-> pct]

\* _get_stub_data of YahooFinanceAdapter: the table, and the generator after it
YahooStubData(ticker, err, today, r) ==
    LET s0 == StubSeed(ticker, r)
        base_price == BasePrice + (hashOf[ticker] % BaseSpread)
        logret == CumSum(s0, StubPeriods)
    IN  [df |-> [rows |-> [i \in 1..StubPeriods |->
                     [Date |-> today - StubPeriods + i,
                      Close |-> Price(base_price, logret[i], 100),
                      Open |-> Price(base_price, logret[i], 99),
                      High |-> Price(base_price, logret[i], 101),
                      Low |-> Price(base_price, logret[i], 98),
                      Volume |-> Randint(RngAfter(s0, StubPeriods + i)),
                      source |-> "stub_fallback"]],
                 attrs |-> IF Truthy(err)
                           THEN [is_stub |-> TRUE, stub_reason |-> err.s]
                           ELSE [is_stub |-> TRUE]],
         rng |-> RngAfter(s0, 2 * StubPeriods)]

\* a stub table without its date anchor: the synthetic series itself
Series(df) ==
    [i \in 1..Len(df.rows) |->
        [c \in {"Close", "Open", "High", "Low", "Volume"} |-> df.rows[i][c]]]

\* df.rename(columns={c: to for c in from})
RenameRow(row, from, to) ==
    IF from = {} THEN row
    ELSE [c \in (DOMAIN row \ from) \cup {to} |->
             IF c = to THEN row[CHOOSE f \in from : TRUE] ELSE row[c]]

\* df.dropna(subset=[col])
RECURSIVE DropNa(_, _)
DropNa(rows, col) ==
    IF Len(rows) = 0 THEN <<>>
    ELSE IF IsNull(Head(rows)[col]) THEN DropNa(Tail(rows), col)
    ELSE <<Head(rows)>> \o DropNa(Tail(rows), col)

RECURSIVE Insert(_, _, _)
Insert(row, sorted, col) ==
    IF Len(sorted) = 0 THEN <<row>>
    ELSE IF row[col] < Head(sorted)[col] THEN <<row>> \o sorted
    ELSE <<Head(sorted)>> \o Insert(row, Tail(sorted), col)

\* df.sort_values(col)
RECURSIVE SortValues(_, _)
SortValues(rows, col) ==
    IF Len(rows) = 0 THEN <<>>
    ELSE Insert(rows[Len(rows)], SortValues(SubSeq(rows, 1, Len(rows) - 1), col), col)

\* _normalize_dataframe: the rows of the normalized table.  Frames of
\* Ticker.history have flat column labels, so the MultiIndex branch is not
\* entered.
NormalizeDataframe(df) ==
    LET cols0 == df.cols \cup {df.iname}
        reset == [i \in 1..Len(df.rows) |-> df.rows[i].c @@ (df.iname :> df.rows[i].ix)]
        dateFrom == IF "Date" \notin cols0
                    THEN {"Datetime", "date", "datetime", "index"} \cap cols0 ELSE {}
        closeFrom == IF "Close" \notin cols0
                     THEN {"Adj Close", "adj_close", "close"} \cap cols0 ELSE {}
        renamed == [i \in 1..Len(reset) |->
                       RenameRow(RenameRow(reset[i], dateFrom, "Date"), closeFrom, "Close")]
        cols1 == IF Len(renamed) = 0 THEN {} ELSE DOMAIN renamed[1]
        dated == IF "Date" \in cols1 THEN SortValues(DropNa(renamed, "Date"), "Date")
                 ELSE renamed
    IN  IF "Close" \in cols1 THEN DropNa(dated, "Close") ELSE dated

\* lines 108-110 of fetch_prices: normalize, tag the source, set the attribute
LiveTable(df) ==
    LET rows == NormalizeDataframe(df)
    IN  [rows |-> [i \in 1..Len(rows) |-> rows[i] @@ ("source" :> "yfinance")],
         attrs |-> [is_stub |-> FALSE]]

\* fetch_prices from the sanitized ticker on: the live outcomes o1 (first
\* history call) and o2 (retry) decide the path
FetchPricesResult(ticker, o1, o2, today, r) ==
    LET fallback(err, n) ==
            LET g == YahooStubData(ticker, err, today, r)
            IN  [df |-> g.df, rng |-> g.rng, origin |-> "stub", requests |-> n]
        live(df, n) ==
            [df |-> LiveTable(df), rng |-> r, origin |-> "live", requests |-> n]
    IN  IF stub THEN fallback(None, 0)
        ELSE IF o1.t = "raise" THEN fallback(JStr(o1.exc.text), 1)
        ELSE IF o1.t = "none" \/ IsEmptyFrame(o1.df)
        THEN IF o2.t = "raise" \/ o2.t = "none" THEN fallback(JStr("Retry failed"), 2)
             ELSE IF IsEmptyFrame(o2.df) THEN fallback(JStr("Empty after retry"), 2)
             ELSE live(o2.df, 2)
        ELSE live(o1.df, 1)

----------------------------------------------------------------------------
(* Iterating and measuring JSON values as Python does *)

RECURSIVE SetToSeq(_)
SetToSeq(S) ==
    IF S = {} THEN <<>>
    ELSE LET x == CHOOSE y \in S : TRUE IN <<x>> \o SetToSeq(S \ {x})

\* len(x) is defined for lists, strings and dicts
HasLen(x) == x.j \in {"list", "str", "obj"}

\* the elements `for a in x` visits: list items, characters, dict keys
PyIter(x) ==
    CASE x.j = "list" -> x.v
      [] x.j = "str"  -> [i \in 1..Len(x.s) |-> JStr(CharAt(x.s, i))]
      [] x.j = "obj"  -> [i \in 1..Cardinality(DOMAIN x.v) |-> JStr(SetToSeq(DOMAIN x.v)[i])]
      [] OTHER        -> <<>>

\* requests' raise_for_status
HttpOk(o) == o.t = "response" /\ o.status < 400

\* how the request of a fetch went: not sent, raised, error status, body that
\* is not JSON, JSON body
Live(requests, o) ==
    IF requests = 0 THEN "unsent"
    ELSE IF o.t = "raise" THEN "raised"
    ELSE IF ~HttpOk(o) THEN "status"
    ELSE IF ~o.body.parse THEN "unparsable"
    ELSE "json"

\* the type of the exception `requests.get(...)` + raise_for_status raises
HttpExcType(o) == IF o.t = "raise" THEN o.exc.type ELSE "HTTPError"

----------------------------------------------------------------------------
(* NewsAdapter._ingest *)

\* the value _ingest returns and whether it came from the live call
Ingest(sess, ticker, o, now) ==
    LET fallback(n) == [items |-> JList(NewsStubData(ticker, now)),
                        origin |-> "stub", requests |-> n]
    IN  IF sess = None THEN fallback(0)
        ELSE IF ~HttpOk(o) THEN fallback(1)
        ELSE IF ~o.body.parse THEN fallback(1)
        ELSE IF o.body.json.j # "obj" THEN fallback(1)
        ELSE LET articles == Get(o.body.json.v, "articles", JList(<<>>))
             IN  IF ~HasLen(articles) THEN fallback(1)
                 ELSE [items |-> articles, origin |-> "live", requests |-> 1]

----------------------------------------------------------------------------
(* SECAdapter *)

RECURSIVE Join(_, _)
Join(sep, parts) ==
    IF Len(parts) = 0 THEN ""
    ELSE IF Len(parts) = 1 THEN parts[1]
    ELSE parts[1] \o sep \o Join(sep, Tail(parts))

\* the query string of latest_filings
FilingsQuery(ticker, form_types) ==
    "ticker:" \o ticker \o " AND ("
    \o Join(" OR ", [i \in 1..Len(form_types) |-> "formType:\"" \o form_types[i] \o "\""])
    \o ")"

SECStubRecord(ticker) ==
    [form |-> JStr("10-Q"),
     filingDate |-> "2025-08-01",
     text |-> ticker \o " reported EPS beat; management raised guidance; risk factors discussed.",
     url |-> JStr("(stub)"),
     is_stub |-> TRUE]

SECStubDataFixed(ticker, limit) == [i \in 1..3 |-> SECStubRecord(ticker)]

\* _get_stub_data of SECAdapter
SECStubData(ticker, limit) == [i \in 1..limit |-> SECStubRecord(ticker)]

\* the record built for one filing dict f of the response
FilingRecord(f, ticker) ==
    [form |-> Get(f.v, "formType", JStr("")),
     filingDate |-> LET d == Str(Get(f.v, "filedAt", JStr("")))
                    IN  SubSeq(d, 1, Min(DateLen, Len(d))),
     text |-> Str(Get(f.v, "companyName", JStr(ticker))) \o " filed "
              \o Str(Get(f.v, "formType", JStr(""))) \o ".",
     url |-> Get(f.v, "linkToFilingDetails", JStr("")),
     is_stub |-> FALSE]

\* the comprehension over the response's filings raises unless every element
\* is a dict whose filedAt (when present) can be sliced
FilingOk(f) == IsDict(f) /\ Get(f.v, "filedAt", JStr("")).j = "str"

\* latest_filings
LatestFilingsResult(key, ticker, form_types, limit, o) ==
    LET fallback(n) == [list |-> SECStubData(ticker, limit),
                        origin |-> "stub", requests |-> n]
    IN  IF ~Truthy(key) THEN fallback(0)
        ELSE IF ~HttpOk(o) THEN fallback(1)
        ELSE IF ~o.body.parse THEN fallback(1)
        ELSE IF o.body.json.j # "obj" THEN fallback(1)
        ELSE LET filings == Get(o.body.json.v, "filings", JList(<<>>))
                 fs == PyIter(filings)
             IN  IF ~HasLen(filings) THEN fallback(1)
                 ELSE IF \E i \in 1..Len(fs) : ~FilingOk(fs[i]) THEN fallback(1)
                 ELSE [list |-> [i \in 1..Len(fs) |-> FilingRecord(fs[i], ticker)],
                       origin |-> "live", requests |-> 1]

----------------------------------------------------------------------------
(* Health checks.  A probe run yields the new _health_check_passed and     *)
(* _health_check_message, the steps it executed and the requests it sent.  *)

Kinds == {"Yahoo", "News", "SEC"}
EnvVar(k) == IF k = "News" THEN "NEWSAPI_KEY" ELSE "SEC_API_KEY"
ListField(k) == IF k = "News" THEN "articles" ELSE "filings"
Operational(k) ==
    CASE k = "News" -> "News API operational"
      [] k = "SEC"  -> "SEC API operational"
      [] OTHER      -> "Yahoo Finance operational"

\* a run ends on the step that failed; `failed` holds every step that failed
Run(h, m, steps, n) ==
    [healthy |-> h, message |-> m, steps |-> steps, requests |-> n,
     failed |-> IF h THEN {} ELSE {steps[Len(steps)]}]

TestApiConnectionGoesOn(k, sess, o) ==
    IF ~HttpOk(o)
    THEN [Run(FALSE, "Response parsing failed: NameError",
              <<"key", "connect", "shape">>, 1) EXCEPT !.failed = {"connect", "shape"}]
    ELSE IF ~o.body.parse \/ o.body.json.j # "obj"
    THEN Run(FALSE, "Response parsing failed: JSONDecodeError",
             <<"key", "connect", "shape">>, 1)
    ELSE IF Get(o.body.json.v, ListField(k), JList(<<>>)).j = "list"
    THEN Run(TRUE, Operational(k), <<"key", "connect", "shape">>, 1)
    ELSE Run(FALSE, "Unexpected response format", <<"key", "connect", "shape">>, 1)

\* _test_api_connection of NewsAdapter and SECAdapter
TestApiConnection(k, sess, o) ==
    IF k = "News" /\ sess = None
    THEN Run(FALSE, "API connection failed: AttributeError", <<"key", "connect">>, 0)
    ELSE IF ~HttpOk(o)
    THEN Run(FALSE, "API connection failed: " \o HttpExcType(o), <<"key", "connect">>, 1)
    ELSE IF ~o.body.parse
    THEN Run(FALSE, "Response parsing failed: JSONDecodeError",
             <<"key", "connect", "shape">>, 1)
    ELSE IF o.body.json.j # "obj"
    THEN Run(FALSE, "Response parsing failed: AttributeError",
             <<"key", "connect", "shape">>, 1)
    ELSE IF Get(o.body.json.v, ListField(k), JList(<<>>)).j = "list"
    THEN Run(TRUE, Operational(k), <<"key", "connect", "shape">>, 1)
    ELSE Run(FALSE, "Unexpected response format", <<"key", "connect", "shape">>, 1)

APIHealthCheckNoneOnly(k, key, sess, o) ==
    IF key = None
    THEN Run(FALSE, "No " \o EnvVar(k) \o " found in environment", <<"key">>, 0)
    ELSE TestApiConnection(k, sess, o)

\* APIDataAdapter._run_health_check
APIHealthCheck(k, key, sess, o) ==
    IF ~Truthy(key)
    THEN Run(FALSE, "No " \o EnvVar(k) \o " found in environment", <<"key">>, 0)
    ELSE TestApiConnection(k, sess, o)

\* what the Yahoo probe meets: Ticker(), .info and .history
YahooProbeOutcomes ==
    [mk : {"ok", "raise"}, info : {"raise", "full"}, hist : HistoryOutcomes]

Failed(type, text) ==
    "Health check failed: " \o type \o ": " \o SubSeq(text, 1, Min(ErrTextLen, Len(text)))

\* YahooFinanceAdapter._run_health_check; h0, m0 are the flag and message
\* before the run
YahooHealthCheck(h0, m0, o) ==
    LET run ==
            IF o.mk = "raise"
            THEN Run(FALSE, Failed("ValueError", "bad ticker"), <<"ticker">>, 0)
            ELSE IF o.hist.t = "raise"
            THEN Run(FALSE, Failed(o.hist.exc.type, o.hist.exc.text),
                     <<"ticker", "info", "history">>, 2)
            ELSE IF o.hist.t = "none" \/ IsEmptyFrame(o.hist.df)
            THEN Run(FALSE, "Empty data returned", <<"ticker", "info", "history">>, 2)
            ELSE LET df == o.hist.df
                 IN  IF IsNull(df.rows[Len(df.rows)].ix)
                     THEN Run(FALSE, Failed("ValueError", "NaTType does not support date"),
                              <<"ticker", "info", "history">>, 2)
                     ELSE IF "Close" \notin df.cols
                     THEN Run(FALSE, Failed("KeyError", "'Close'"),
                              <<"ticker", "info", "history">>, 2)
                     ELSE IF "Close" \in df.cols
                     THEN Run(TRUE, Operational("Yahoo"),
                              <<"ticker", "info", "history", "quality">>, 2)
                     ELSE Run(FALSE, m0, <<"ticker", "info", "history", "quality">>, 2)
    IN  \* a t.info that raises is a warning: the run goes on (lines 42-43)
        IF o.mk = "ok" /\ o.info = "raise"
        THEN [run EXCEPT !.failed = @ \cup {"info"}]
        ELSE run

HealthCheckSoftWarning(k, key, sess, h0, m0, o) ==
    IF /\ k = "Yahoo" /\ o.mk = "ok" /\ o.hist.t = "frame"
       /\ ~IsEmptyFrame(o.hist.df) /\ "Close" \notin o.hist.df.cols
    THEN Run(FALSE, m0, <<"ticker", "info", "history", "quality">>, 2)
    ELSE IF k = "Yahoo" THEN YahooHealthCheck(h0, m0, o)
    ELSE APIHealthCheck(k, key, sess, o)

HealthCheckSticky(k, key, sess, h0, m0, o) ==
    IF h0 THEN Run(TRUE, m0, <<>>, 0)
    ELSE IF k = "Yahoo" THEN YahooHealthCheck(h0, m0, o)
    ELSE APIHealthCheck(k, key, sess, o)

\* self._run_health_check() of the adapter's class
HealthCheck(k, key, sess, h0, m0, o) ==
    IF k = "Yahoo" THEN YahooHealthCheck(h0, m0, o) ELSE APIHealthCheck(k, key, sess, o)

\* get_health_status (init_time is assigned once, in __init__)
GetHealthStatus(h, m, st) == [healthy |-> h, message |-> m, stub_mode |-> st]

\* what a run leaves in the record of the last run: its steps, its requests,
\* the steps that failed, and the status one run of a newly constructed
\* adapter gives against the same upstream outcome
ProbeRecord(k, key, sess, run, o) ==
    [steps |-> run.steps, requests |-> run.requests, failed |-> run.failed,
     single |-> LET one == HealthCheck(k, key, sess, FALSE, "Not Tested", o)
                IN  GetHealthStatus(one.healthy, one.message, FALSE)]

----------------------------------------------------------------------------
(* The adapter instance *)

NoCall == [op |-> "none", outcome |-> "none", origin |-> "none", requests |-> 0]
NoRun == [steps |-> <<>>, requests |-> 0]
NoError == "<none>"
NoneSeen == [t \in TickerIds |-> [series |-> {}, fetches |-> 0]]
NoCtor == [health_check |-> FALSE, fail_on_error |-> FALSE, passed |-> FALSE]

\* before __init__; the specifications fix hashOf and rng
Init ==
    /\ kind \in Kinds
    /\ env \in IF kind = "Yahoo" THEN {None} ELSE EnvValues
    /\ pc = "new"
    /\ api_key = None
    /\ session = None
    /\ healthy = FALSE
    /\ message = ""
    /\ stub = FALSE
    /\ error = NoError
    /\ ctor = NoCtor
    /\ probe = NoRun
    /\ call = NoCall
    /\ ret = <<>>
    /\ seen = NoneSeen

RaiseAlways(run, fail_on_error) == ~run.healthy

\* `not self._run_health_check() and fail_on_error`
Raises(run, fail_on_error) == ~run.healthy /\ fail_on_error

\* __init__ of the adapter's class, down to baseDataAdapter.__init__
Construct(health_check, fail_on_error, o) ==
    /\ pc = "new"
    /\ \E key \in {IF kind = "Yahoo" THEN None ELSE env} :
       \E sess \in {IF kind = "News" /\ Truthy(env) THEN JStr("Session") ELSE None} :
       \E run \in {HealthCheck(kind, key, sess, FALSE, "Not Tested", o)} :
           /\ api_key' = key
           /\ session' = sess
           /\ stub' = FALSE
           /\ ctor' = [health_check |-> health_check, fail_on_error |-> fail_on_error,
                       passed |-> health_check /\ run.healthy]
           /\ IF health_check
              THEN /\ healthy' = run.healthy
                   /\ message' = run.message
                   /\ probe' = ProbeRecord(kind, key, sess, run, o)
                   /\ IF Raises(run, fail_on_error)
                      THEN /\ pc' = "failed"
                           /\ error' = "Health Check failed: " \o run.message
                      ELSE /\ pc' = "ready"
                           /\ error' = NoError
              ELSE /\ healthy' = FALSE
                   /\ message' = "Not Tested"
                   /\ probe' = NoRun
                   /\ pc' = "ready"
                   /\ error' = NoError
    /\ UNCHANGED <<kind, env, hashOf, rng, call, ret, seen>>

RunHealthCheckMarksStub(o) ==
    /\ pc = "ready"
    /\ \E run \in {HealthCheck(kind, api_key, session, healthy, message, o)} :
           /\ healthy' = run.healthy
           /\ message' = run.message
           /\ stub' = ~run.healthy
           /\ probe' = ProbeRecord(kind, api_key, session, run, o)
    /\ UNCHANGED <<kind, env, hashOf, pc, api_key, session, error, ctor,
                   rng, call, ret, seen>>

\* an explicit re-run of _run_health_check on a constructed adapter
RunHealthCheck(o) ==
    /\ pc = "ready"
    /\ \E run \in {HealthCheck(kind, api_key, session, healthy, message, o)} :
           /\ healthy' = run.healthy
           /\ message' = run.message
           /\ probe' = ProbeRecord(kind, api_key, session, run, o)
    /\ UNCHANGED <<kind, env, hashOf, pc, api_key, session, stub, error, ctor,
                   rng, call, ret, seen>>

----------------------------------------------------------------------------
(* Fetch calls *)

FetchFrameMarksStub ==
    /\ stub' = TRUE
    /\ UNCHANGED <<kind, env, hashOf, pc, api_key, session, healthy, message,
                   error, ctor, probe>>

\* what no fetch method assigns: the attributes set by __init__ and by the
\* health check
FetchFrame ==
    UNCHANGED <<kind, env, hashOf, pc, api_key, session, healthy, message, stub,
                error, ctor, probe>>

NeedsRetry(o) == o.t = "none" \/ (o.t = "frame" /\ IsEmptyFrame(o.df))

\* the period of the retry
RetryPeriod == "1mo"

\* how fetch_prices reads the first history call and the retry
FirstGot(o) ==
    IF o.t = "raise" THEN "raised" ELSE IF NeedsRetry(o) THEN "empty" ELSE "frame"
RetryGot(o) ==
    IF o.t = "raise" \/ o.t = "none" THEN "failed"
    ELSE IF IsEmptyFrame(o.df) THEN "empty" ELSE "frame"

\* the history calls one fetch_prices call makes: period asked, what came back
Attempts(period, o1, o2, n) ==
    IF n = 0 THEN <<>>
    ELSE IF n = 1 THEN <<[period |-> period, got |-> FirstGot(o1)]>>
    ELSE <<[period |-> period, got |-> FirstGot(o1)],
           [period |-> RetryPeriod, got |-> RetryGot(o2)]>>

\* fetch_prices(raw): o1 is the outcome of the first history call, o2 of the
\* retry (made only after an empty first result)
FetchPrices(raw, period, o1, o2, today) ==
    /\ pc = "ready"
    /\ kind = "Yahoo"
    /\ \E ticker \in {SanitizeTicker(raw)} :
       \E r \in {FetchPricesResult(ticker, o1, o2, today, rng)} :
           /\ ret' = r.df
           /\ rng' = r.rng
           /\ call' = [op |-> "fetch_prices", outcome |-> "returned", origin |-> r.origin,
                       requests |-> r.requests, ticker |-> ticker,
                       attempts |-> Attempts(period, o1, o2, r.requests)]
           /\ seen' = IF r.origin = "stub"
                      THEN [seen EXCEPT ![ticker] =
                               [series |-> @.series \cup {Series(r.df)},
                                fetches |-> Min(@.fetches + 1, MaxFetches)]]
                      ELSE seen
    /\ FetchFrame

FetchPricesIn(raws, periods, outcomes, days) ==
    \E raw \in raws, period \in periods, o1 \in outcomes :
        \E o2 \in (IF NeedsRetry(o1) THEN outcomes ELSE {o1}), today \in days :
            FetchPrices(raw, period, o1, o2, today)

\* fetch_info from the sanitized ticker on
FetchInfoResult(ticker, o) ==
    IF stub
    THEN [d |-> [stub |-> TRUE, ticker |-> ticker], origin |-> "stub", requests |-> 0]
    ELSE IF o.t = "raise"
    THEN [d |-> [error |-> o.exc.text, ticker |-> ticker],
          origin |-> "error", requests |-> 1]
    ELSE LET info == IF o.v = None THEN <<>> ELSE o.v.v
         IN  [d |-> ("source" :> JStr("info")) @@ info, origin |-> "live", requests |-> 1]

\* fetch_info(raw): o is the outcome of Ticker(ticker).info
FetchInfo(raw, o) ==
    /\ pc = "ready"
    /\ kind = "Yahoo"
    /\ \E ticker \in {SanitizeTicker(raw)} :
       \E r \in {FetchInfoResult(ticker, o)} :
           /\ ret' = r.d
           /\ call' = [op |-> "fetch_info", outcome |-> "returned", origin |-> r.origin,
                       requests |-> r.requests, ticker |-> ticker, raw |-> raw]
    /\ FetchFrame
    /\ UNCHANGED <<rng, seen>>

FetchInfoIn(raws, outcomes) ==
    \E raw \in raws, o \in outcomes : FetchInfo(raw, o)

\* fetch_financials, fetch_balance_sheet and fetch_cashflow from the
\* sanitized ticker on: the table returned and where it came from
FetchStatementResult(o) ==
    IF stub THEN [df |-> EmptyTable, origin |-> "stub", requests |-> 0]
    ELSE IF o.t = "raise" THEN [df |-> EmptyTable, origin |-> "error", requests |-> 1]
    ELSE IF o.t = "none" \/ IsEmptyTable(o.df)
    THEN [df |-> EmptyTable, origin |-> "empty", requests |-> 1]
    ELSE [df |-> o.df, origin |-> "live", requests |-> 1]

\* the three statement fetches differ in the Ticker attribute they read
FetchStatement(op, raw, o) ==
    /\ pc = "ready"
    /\ kind = "Yahoo"
    /\ \E ticker \in {SanitizeTicker(raw)} :
       \E r \in {FetchStatementResult(o)} :
           /\ ret' = r.df
           /\ call' = [op |-> op, outcome |-> "returned", origin |-> r.origin,
                       requests |-> r.requests, ticker |-> ticker, raw |-> raw]
    /\ FetchFrame
    /\ UNCHANGED <<rng, seen>>

\* fetch_financials(raw): o is the outcome of Ticker(ticker).financials
FetchFinancials(raw, o) == FetchStatement("fetch_financials", raw, o)

\* fetch_balance_sheet(raw): o is the outcome of Ticker(ticker).balance_sheet
FetchBalanceSheet(raw, o) == FetchStatement("fetch_balance_sheet", raw, o)

\* fetch_cashflow(raw): o is the outcome of Ticker(ticker).cashflow
FetchCashflow(raw, o) == FetchStatement("fetch_cashflow", raw, o)

FetchStatementsIn(raws, outcomes) ==
    \E raw \in raws, o \in outcomes :
        \/ FetchFinancials(raw, o)
        \/ FetchBalanceSheet(raw, o)
        \/ FetchCashflow(raw, o)

\* run_chain(ticker): o is the outcome of the NewsAPI request
RunChain(ticker, o, now) ==
    /\ pc = "ready"
    /\ kind = "News"
    /\ \E ing \in {Ingest(session, ticker, o, now)} :
       \E items \in {PyIter(ing.items)} :
           IF \E i \in 1..Len(items) : ~IsDict(items[i])
           THEN \* a.get(...) in _preprocess raises, outside any try
                /\ ret' = <<>>
                /\ call' = [op |-> "run_chain", outcome |-> "raised", origin |-> ing.origin,
                            requests |-> ing.requests, live |-> Live(ing.requests, o),
                            ticker |-> ticker, exc |-> "AttributeError"]
           ELSE \E texts \in {Preprocess(items)} :
                /\ ret' = ChainResult(session, items)
                /\ call' = [op |-> "run_chain", outcome |-> "returned", origin |-> ing.origin,
                            requests |-> ing.requests, live |-> Live(ing.requests, o),
                            ticker |-> ticker, items |-> items, texts |-> texts, labels |-> Classify(texts)]
    /\ FetchFrame
    /\ UNCHANGED <<rng, seen>>

RunChainIn(tickers, outcomes) ==
    \E ticker \in tickers, o \in outcomes, now \in Clock : RunChain(ticker, o, now)

\* latest_filings(ticker, form_types, limit): o is the outcome of the request
LatestFilings(ticker, form_types, limit, o) ==
    /\ pc = "ready"
    /\ kind = "SEC"
    /\ \E r \in {LatestFilingsResult(api_key, ticker, form_types, limit, o)} :
           /\ ret' = r.list
           /\ call' = [op |-> "latest_filings", outcome |-> "returned", origin |-> r.origin,
                       requests |-> r.requests, live |-> Live(r.requests, o),
                       ticker |-> ticker, limit |-> limit,
                       query |-> FilingsQuery(ticker, form_types)]
    /\ FetchFrame
    /\ UNCHANGED <<rng, seen>>

FormTypeSets == { <<"10-K", "10-Q">>, <<"8-K">> }

LatestFilingsIn(forms, outcomes) ==
    \E form_types \in forms, limit \in 0..MaxLimit, o \in outcomes :
        LatestFilings("AAPL", form_types, limit, o)

----------------------------------------------------------------------------
(* Specifications *)

\* the state Construct(FALSE, FALSE, _) leaves: an adapter constructed
\* without a health check
InitReady ==
    /\ kind \in Kinds
    /\ env \in IF kind = "Yahoo" THEN {None} ELSE EnvValues
    /\ pc = "ready"
    /\ api_key = env
    /\ session = IF kind = "News" /\ Truthy(env) THEN JStr("Session") ELSE None
    /\ healthy = FALSE
    /\ message = "Not Tested"
    /\ stub = FALSE
    /\ error = NoError
    /\ ctor = NoCtor
    /\ probe = NoRun
    /\ call = NoCall
    /\ ret = <<>>
    /\ seen = NoneSeen

FixedHash == hashOf = [t \in TickerIds |-> 0] /\ rng = 0
AnyHash == hashOf \in [TickerIds -> 0..HashRange] /\ rng \in 0..(RngStates - 1)

\* the live outcomes of the lifecycle specification: every failure class,
\* and responses with no, some and malformed elements
ListsOver(o, field, elems) ==
    o.t = "response" /\ o.status = 200 /\ o.body.parse /\ o.body.json.j = "obj"
    /\ field \in DOMAIN o.body.json.v /\ o.body.json.v[field].j = "list"
    => \A i \in 1..Len(o.body.json.v[field].v) : o.body.json.v[field].v[i] \in elems

LifecycleNewsHttp == {o \in NewsHttp : ListsOver(o, "articles", {None, BeatArticle})}
LifecycleSECHttp == {o \in SECHttp : ListsOver(o, "filings", {None, JObj(<<>>)})}
LifecycleHistory ==
    {o \in HistoryOutcomes : o.t = "frame" => "Close" \in o.df.cols /\ Len(o.df.rows) < 2}

LifecycleInfo == {o \in InfoOutcomes : o.t = "raise" => o.exc.type = "Timeout"}
LifecycleStatements ==
    {o \in StatementOutcomes : o.t = "raise" => o.exc.type = "Timeout"}

\* what the probe of an adapter of class k can meet
ProbeOutcomes(k) ==
    CASE k = "Yahoo" -> YahooProbeOutcomes
      [] k = "News"  -> LifecycleNewsHttp
      [] OTHER       -> LifecycleSECHttp

\* Spec: the whole life of one adapter of any class
Next ==
    \/ \E hc \in BOOLEAN, foe \in BOOLEAN, o \in ProbeOutcomes(kind) : Construct(hc, foe, o)
    \/ \E o \in ProbeOutcomes(kind) : RunHealthCheck(o)
    \/ FetchPricesIn({"$AAPL"}, {DefaultPeriod}, LifecycleHistory, {100})
    \/ FetchInfoIn({"$AAPL"}, LifecycleInfo)
    \/ FetchStatementsIn({"$AAPL"}, LifecycleStatements)
    \/ RunChainIn({"AAPL"}, LifecycleNewsHttp)
    \/ LatestFilingsIn({<<"10-K", "10-Q">>}, LifecycleSECHttp)

InitLifecycle == Init /\ FixedHash
Spec == InitLifecycle /\ [][Next]_vars

\* SpecFetch: the fetch calls of a constructed adapter, over every live outcome
NextFetch ==
    \/ FetchPricesIn(RawTickers, {DefaultPeriod}, HistoryOutcomes, Days)
    \/ RunChainIn({"AAPL"}, NewsHttp)
    \/ LatestFilingsIn(FormTypeSets, SECHttp)

InitFetch == InitReady /\ FixedHash
SpecFetch == InitFetch /\ [][NextFetch]_vars

\* SpecYahoo: every fetch of a constructed YahooFinanceAdapter, over the
\* periods and the raw tickers callers pass
NextYahoo ==
    \/ FetchPricesIn({"aapl"}, Periods, HistoryOutcomes, Days)
    \/ FetchInfoIn(WideRawTickers, InfoOutcomes)
    \/ FetchStatementsIn(WideRawTickers, StatementOutcomes)

InitYahoo == InitReady /\ kind = "Yahoo" /\ FixedHash
SpecYahoo == InitYahoo /\ [][NextYahoo]_vars

\* SpecNews: run_chain of a constructed NewsAdapter, over the ticker strings
\* callers pass
NewsTickers == {"AAPL", "cut", "F"}
NextNews == RunChainIn(NewsTickers, NewsHttp)

InitNews == InitReady /\ kind = "News" /\ FixedHash
SpecNews == InitNews /\ [][NextNews]_vars

\* SpecChain: run_chain of a constructed NewsAdapter against a feed that
\* grows: a request returns the articles of the last live request, with or
\* without one newer article in front (sortBy publishedAt), up to
\* MaxChainLen articles
LastFeed == IF call.op = "run_chain" /\ call.origin = "live" THEN call.items ELSE <<>>

NextChain ==
    \E l \in {LastFeed} \cup {<<a>> \o LastFeed : a \in ChainArticles} :
        /\ Len(l) <= MaxChainLen
        /\ RunChainIn({"AAPL"}, {ArticlesResponse(l)})

SpecChain == InitNews /\ [][NextChain]_vars

\* SpecRepro: price fetches in runs with any str hash and any generator state
NextRepro == FetchPricesIn(RawTickers, {DefaultPeriod}, LifecycleHistory, Days)

InitRepro == InitReady /\ kind = "Yahoo" /\ AnyHash
SpecRepro == InitRepro /\ [][NextRepro]_vars

----------------------------------------------------------------------------
(* Properties *)

\* run_chain reached its return statement
ChainReturned == call.op = "run_chain" /\ call.outcome = "returned"
TextFields == {"title", "description", "content"}

\* the article holds cue word k in one of its text fields, in any letter case
HasCue(a, k) ==
    \E f \in TextFields \cap DOMAIN a.v : Contains(k, Lower(Str(a.v[f])))

\* C1: whatever the live call produced, fetch_prices, run_chain and
\* latest_filings return a result to the caller; none propagates an exception
C1_FetchNeverRaises == call.op # "none" => call.outcome = "returned"

\* C2: a result that did not come from a live call that succeeded end to end
\* carries a true stub flag: the is_stub attribute of a price table, the
\* is_stub entry of a news result, the is_stub field of every filing record
C2_StubIsFlagged ==
    call.origin = "stub" =>
        CASE call.op = "fetch_prices" -> ret.attrs.is_stub
          [] call.op = "run_chain" -> call.outcome = "returned" /\ ret.is_stub
          [] call.op = "latest_filings" -> \A i \in 1..Len(ret) : ret[i].is_stub
          [] OTHER -> FALSE

C2_StubIsFlagged_Witness ==
    ChainReturned /\ call.origin = "stub" /\ call.requests = 1 /\ ret.is_stub

\* C3: construction raises exactly when health_check is on, the probe failed
\* and fail_on_error is set; the error then carries the probe's failure
\* message; in every other combination construction succeeds
C3_ConstructionRaisesIff ==
    pc # "new" =>
        /\ pc = "failed" <=> ctor.health_check /\ ~ctor.passed /\ ctor.fail_on_error
        /\ pc = "failed" =>
              /\ error = "Health Check failed: " \o message
              /\ message \notin {"Not Tested", Operational(kind)}
        /\ pc # "failed" => pc = "ready" /\ error = NoError

C3_ConstructionRaisesIff_Witness ==
    /\ pc = "failed"
    /\ kind = "News"
    /\ error = "Health Check failed: No NEWSAPI_KEY found in environment"

\* C4: fetch_prices returns a non-empty table; every row's source is the live
\* value or the stub value; the source is the stub value exactly when the
\* is_stub attribute is true
C4_PricesNonEmptyAndTagged ==
    call.op = "fetch_prices" =>
        /\ call.outcome = "returned"
        /\ Len(ret.rows) > 0
        /\ \A i \in 1..Len(ret.rows) :
              /\ ret.rows[i].source \in {"yfinance", "stub_fallback"}
              /\ ret.rows[i].source = "stub_fallback" <=> ret.attrs.is_stub

\* C5: within one run, every stub price fetch for a ticker identity yields the
\* same Close/Open/High/Low/Volume series, whatever was fetched in between and
\* whatever the failure reason; only the dates may differ
C5_StubSeriesReproducible ==
    \A t \in TickerIds : Cardinality(seen[t].series) <= 1

C5_StubSeriesReproducible_Witness ==
    /\ seen["AAPL"].fetches >= 2
    /\ seen["MSFT"].fetches >= 1
    /\ call.ticker = "AAPL"
    /\ call.origin = "stub"
    /\ "stub_reason" \in DOMAIN ret.attrs

\* C6: the label of a normalized text is mixed if it holds a positive and a
\* negative cue (in any order, however often), positive if only positive
\* cues, negative if only negative cues, neutral otherwise; the empty text is
\* neutral
C6_ClassifyByCues ==
    ChainReturned =>
        /\ Len(call.labels) = Len(call.texts)
        /\ \A i \in 1..Len(call.texts) :
              LET t == call.texts[i]
                  pos == \E k \in POS : Contains(k, t)
                  neg == \E k \in NEG : Contains(k, t)
              IN  /\ call.labels[i] =
                        (CASE pos /\ neg -> "mixed"
                           [] pos /\ ~neg -> "positive"
                           [] ~pos /\ neg -> "negative"
                           [] OTHER -> "neutral")
                  /\ t = "" => call.labels[i] = "neutral"
        /\ \A i \in 1..Len(ret.samples) : ret.samples[i].sentiment = call.labels[i]

C6_ClassifyByCues_Witness ==
    /\ ChainReturned
    /\ call.texts = <<"cut beat beat", "">>
    /\ call.labels = <<"mixed", "neutral">>

\* C7: the counts of a summary have all four label keys, zero counts
\* included, and sum to the number of input texts
C7_CountsCoverTexts ==
    ChainReturned =>
        /\ DOMAIN ret.summary.counts = LabelKeys
        /\ ret.summary.counts["mixed"] + ret.summary.counts["positive"]
             + ret.summary.counts["negative"] + ret.summary.counts["neutral"]
           = Len(call.texts)
        /\ ret.counts = ret.summary.counts

C7_CountsCoverTexts_Witness ==
    /\ ChainReturned
    /\ Len(call.texts) = 2
    /\ ret.summary.counts["positive"] = 2
    /\ ret.summary.counts["neutral"] = 0

\* C8: latest_filings without a credential, or after a live call that failed,
\* returns exactly `limit` records, each with is_stub true; without a
\* credential it sends no request
C8_StubFilingsHaveLimitRecords ==
    call.op = "latest_filings" =>
        /\ ~Truthy(api_key) => call.origin = "stub" /\ call.requests = 0
        /\ call.live \in {"raised", "status", "unparsable"} => call.origin = "stub"
        /\ call.origin = "stub" =>
              /\ call.outcome = "returned"
              /\ Len(ret) = call.limit
              /\ \A i \in 1..Len(ret) : ret[i].is_stub

C8_StubFilingsHaveLimitRecords_Witness ==
    /\ call.op = "latest_filings"
    /\ api_key = None
    /\ call.limit = MaxLimit
    /\ Len(ret) = MaxLimit
    /\ call.requests = 0

\* C9: a health check of a News or SEC adapter whose credential is absent or
\* empty ends unhealthy with a message naming the credential variable, and
\* runs neither the connectivity nor the response step: no request is sent
C9_NoCredentialNoNetwork ==
    kind \in {"News", "SEC"} /\ ~Truthy(api_key) /\ probe # NoRun =>
        /\ ~healthy
        /\ Contains(EnvVar(kind), message)
        /\ probe.steps = <<"key">>
        /\ probe.requests = 0

C9_NoCredentialNoNetwork_Witness ==
    /\ kind = "SEC"
    /\ api_key = JStr("")
    /\ probe.steps = <<"key">>
    /\ message = "No SEC_API_KEY found in environment"

\* C10: two articles, one holding "beat" and no negative cue, the other
\* holding "miss" and no positive cue, give the counts positive 1,
\* negative 1, mixed 0, neutral 0
C10_BeatMissRoundTrip ==
    ChainReturned /\ Len(call.items) = 2 =>
        \A i, j \in 1..2 :
            /\ i # j
            /\ HasCue(call.items[i], "beat")
            /\ \A k \in NEG : ~HasCue(call.items[i], k)
            /\ HasCue(call.items[j], "miss")
            /\ \A k \in POS : ~HasCue(call.items[j], k)
            => ret.counts = [mixed |-> 0, positive |-> 1, negative |-> 1, neutral |-> 0]

C10_BeatMissRoundTrip_Witness ==
    /\ ChainReturned
    /\ call.origin = "live"
    /\ call.items = <<MissArticle, BeatArticle>>
    /\ ret.counts["positive"] = 1

\* C11: whenever ingest falls back to the stub, run_chain processes exactly
\* two articles, one labelled positive and one negative, so the counts are
\* positive 1, negative 1, mixed 0, neutral 0 for every ticker string
C11_StubPairCounts ==
    call.op = "run_chain" /\ call.origin = "stub" =>
        /\ call.outcome = "returned"
        /\ Len(call.items) = 2
        /\ \E i, j \in 1..2 : call.labels[i] = "positive" /\ call.labels[j] = "negative"
        /\ ret.counts = [mixed |-> 0, positive |-> 1, negative |-> 1, neutral |-> 0]

\* C12: is_stub of a run_chain result is true exactly when the adapter has no
\* session or the ingested list has two entries; a live result of another
\* size (zero included) is flagged false, a live result of two is flagged true
C12_StubFlagIsSessionOrPair ==
    ChainReturned =>
        /\ ret.is_stub <=> (session = None \/ Len(call.items) = 2)
        /\ call.origin = "live" /\ Len(call.items) # 2 => ~ret.is_stub
        /\ call.origin = "live" /\ Len(call.items) = 2 => ret.is_stub

C12_StubFlagIsSessionOrPair_Witness ==
    /\ ChainReturned
    /\ call.origin = "live"
    /\ call.items = <<BeatArticle, BeatArticle>>
    /\ ret.is_stub

StatementOps == {"fetch_financials", "fetch_balance_sheet", "fetch_cashflow"}

\* C13: fetch_info returns an empty mapping, and fetch_financials,
\* fetch_balance_sheet and fetch_cashflow an empty table, whenever the live
\* call fails or the adapter is in stub mode
C13_FundamentalsEmptyOnFailure ==
    call.origin \in {"error", "stub"} =>
        /\ call.op = "fetch_info" => DOMAIN ret = {}
        /\ call.op \in StatementOps => IsEmptyTable(ret)

ReasonKeys == {"stub_reason", "reason", "error"}

\* C14: every stub result made after a caught failure of the live call
\* carries a reason string: the price table in its attributes, the news
\* result among its entries, every filing record among its fields
C14_StubCarriesReason ==
    call.origin = "stub" /\ call.requests > 0 /\ call.outcome = "returned" =>
        CASE call.op = "fetch_prices" -> ReasonKeys \cap DOMAIN ret.attrs # {}
          [] call.op = "run_chain" -> ReasonKeys \cap DOMAIN ret # {}
          [] call.op = "latest_filings" ->
                \A i \in 1..Len(ret) : ReasonKeys \cap DOMAIN ret[i] # {}
          [] OTHER -> FALSE

\* C15: on an adapter whose construction-time health check failed (and
\* fail_on_error was unset), every fetch call returns the stub's output
C15_FailedProbeForcesStub ==
    pc = "ready" /\ ctor.health_check /\ ~ctor.passed /\ call.op # "none" =>
        call.outcome = "returned" /\ call.origin = "stub"

\* the order of the steps of a probe of class k
StepOrder(k) ==
    IF k = "Yahoo" THEN <<"ticker", "info", "history", "quality">>
    ELSE <<"key", "connect", "shape">>

\* the steps of the last run are the first steps of the order, in order
StepsInOrder ==
    /\ Len(probe.steps) <= Len(StepOrder(kind))
    /\ probe.steps = SubSeq(StepOrder(kind), 1, Len(probe.steps))

\* C16 as stated: in every probe the steps run in a fixed order and no step
\* runs after a step that failed
C16_EveryStepShortCircuits ==
    probe # NoRun =>
        /\ StepsInOrder
        /\ \A i \in 1..Len(probe.steps) :
              probe.steps[i] \in probe.failed => i = Len(probe.steps)

\* C16, amended: in every probe the steps run in a fixed order; no step runs
\* after a step that failed, except that the Yahoo probe goes on to the
\* history step after its info step failed
C16_StepsShortCircuitButInfo ==
    probe # NoRun =>
        /\ StepsInOrder
        /\ \A i \in 1..Len(probe.steps) :
              /\ probe.steps[i] \in probe.failed
              /\ ~(kind = "Yahoo" /\ probe.steps[i] = "info")
              => i = Len(probe.steps)
        /\ ~healthy => probe.steps[Len(probe.steps)] \in probe.failed
        /\ healthy => probe.steps = StepOrder(kind)

C16_StepsShortCircuitButInfo_Witness ==
    /\ kind = "News"
    /\ probe # NoRun
    /\ probe.steps = <<"key", "connect">>
    /\ probe.failed = {"connect"}
    /\ probe.requests = 1

\* C17: a step that makes a fetch call (it changes the record of the last
\* call, its result, the generator or the series seen) leaves the health
\* flag, the health message and the stub-mode flag as they were, so
\* get_health_status returns the same record before and after
C17_FetchKeepsHealthStatus ==
    [][ <<call, ret, rng, seen>>' # <<call, ret, rng, seen>>
        => GetHealthStatus(healthy', message', stub')
           = GetHealthStatus(healthy, message, stub) ]_vars

C17_FetchKeepsHealthStatus_Witness ==
    /\ call.op = "fetch_cashflow"
    /\ call.origin = "live"
    /\ ctor.health_check
    /\ GetHealthStatus(healthy, message, stub)
       = [healthy |-> FALSE, message |-> "Empty data returned", stub_mode |-> FALSE]

\* C18: an empty or missing first result makes exactly one retry, with a
\* period shorter than the one asked for; the stub is returned after an
\* empty first result only when the retry is empty or fails; one call
\* makes at most two history requests
C18_OneShorterRetry ==
    call.op = "fetch_prices" =>
        LET a == call.attempts
        IN  /\ Len(a) <= 2
            /\ call.requests = Len(a)
            /\ Len(a) = 2 <=> (Len(a) >= 1 /\ a[1].got = "empty")
            /\ Len(a) = 2 =>
                  /\ PeriodDays(a[2].period) < PeriodDays(a[1].period)
                  /\ call.origin = "stub" <=> a[2].got \in {"empty", "failed"}

\* C19: the sanitized ticker has no leading `$`, no leading or trailing
\* whitespace, and is upper case; sanitizing it again changes nothing
C19_SanitizedTickerIsCanonical ==
    call.op \in {"fetch_info"} \cup StatementOps =>
        LET t == call.ticker
        IN  /\ ~StartsWith(t, "$")
            /\ Strip(t) = t
            /\ Upper(t) = t
            /\ SanitizeTicker(t) = t

\* C20: whatever ran before, a run of the probe leaves the healthy flag and
\* the message that a single run against the same credential and the same
\* upstream outcome gives: nothing of an earlier run survives
C20_ProbeIdempotent ==
    probe # NoRun =>
        /\ healthy = probe.single.healthy
        /\ message = probe.single.message

C20_ProbeIdempotent_Witness ==
    /\ kind = "Yahoo"
    /\ pc = "ready"
    /\ ctor.passed
    /\ ~healthy
    /\ message = "Empty data returned"


\* C21: for n ingested articles run_chain returns min(3, n) samples and
\* min(k, n) snippets, k = 2; the i-th sample holds the normalized text, the
\* label and the extracted entities of the i-th article, and the i-th snippet
\* holds the label and the first 100 characters of the normalized text of the
\* i-th article
C21_SamplesAndSnippetsFollowArticles ==
    ChainReturned =>
        LET n == Len(call.items)
            text(i) == ArticleText(call.items[i])
        IN  /\ Len(ret.samples) = Min(3, n)
            /\ Len(ret.summary.snippets) = Min(2, n)
            /\ \A i \in 1..Len(ret.samples) :
                   /\ ret.samples[i].text = text(i)
                   /\ ret.samples[i].sentiment = ClassifyText(text(i))
                   /\ ret.samples[i].entities = [money |-> FindMoney(text(i))]
            /\ \A i \in 1..Len(ret.summary.snippets) :
                   ret.summary.snippets[i] =
                       "- " \o ClassifyText(text(i)) \o ": "
                       \o SubSeq(text(i), 1, Min(100, Len(text(i)))) \o "..."

C21_SamplesAndSnippetsFollowArticles_Witness ==
    /\ ChainReturned
    /\ call.origin = "live"
    /\ Len(call.items) = 4
    /\ call.items[2] = LongArticle
    /\ call.items[4] = LongArticle
    /\ Len(ret.samples) = 3
    /\ Len(ret.summary.snippets) = 2
    /\ Len(ret.samples[2].text) > 100
    /\ ret.samples[2].sentiment = "positive"
    /\ ret.samples[2].entities.money = {"$ 5.5"}
    /\ Len(ret.summary.snippets[2]) = Len("- positive: ") + 100 + Len("...")

\* the messages a passing run leaves
OperationalMessages == {Operational(k) : k \in Kinds}

\* the message names the failure of the step the last run ended on
DescribesFailure ==
    LET last == probe.steps[Len(probe.steps)]
    IN  CASE last = "key"     -> message = "No " \o EnvVar(kind) \o " found in environment"
          [] last = "connect" -> StartsWith(message, "API connection failed: ")
          [] last = "shape"   -> \/ message = "Unexpected response format"
                                 \/ StartsWith(message, "Response parsing failed: ")
          [] last = "ticker"  -> StartsWith(message, "Health check failed: ")
          [] last = "history" -> \/ message = "Empty data returned"
                                 \/ StartsWith(message, "Health check failed: ")
          [] OTHER            -> FALSE

\* C22: in every state of every adapter the health flag is true exactly when
\* the message is the adapter's operational message; after a probe run that
\* ended unhealthy the message describes the failure of that run: it is not
\* "Not Tested" and not an operational message left by an earlier passing
\* run, also when the response parses but has an unexpected shape
C22_MessageAgreesWithFlag ==
    /\ healthy <=> message = Operational(kind)
    /\ probe.steps # <<>> /\ ~healthy =>
           /\ message # "Not Tested"
           /\ message \notin OperationalMessages
           /\ message = probe.single.message
           /\ DescribesFailure

\* a run that follows a passing one and meets a frame without a Close column
C22_MessageAgreesWithFlag_Witness ==
    /\ kind = "Yahoo"
    /\ pc = "ready"
    /\ ctor.passed
    /\ ~healthy
    /\ probe.steps = <<"ticker", "info", "history">>
    /\ message = "Health check failed: KeyError: 'Close'"

\* the fetch methods of YahooFinanceAdapter, each of which tests self._stub
YahooOps == StatementOps \cup {"fetch_prices", "fetch_info"}

\* C23: the stub-mode flag is false in every state: construction, every
\* outcome of the health check (a missing credential included) and every
\* fetch leave it false, so get_health_status reports stub_mode = false also
\* when the adapter has just returned stub data, and no Yahoo fetch returns
\* through its stub-mode branch (each makes at least one upstream call)
C23_StubModeNeverSet ==
    /\ ~stub
    /\ ~GetHealthStatus(healthy, message, stub).stub_mode
    /\ call.op \in YahooOps =>
           /\ call.requests > 0
           /\ call.op # "fetch_prices" => call.origin # "stub"

\* stub prices returned after a failed probe: the flag is still false
C23_StubModeNeverSet_Witness ==
    /\ call.op = "fetch_prices"
    /\ call.origin = "stub"
    /\ ret.attrs.is_stub
    /\ ctor.health_check
    /\ ~healthy
    /\ ~GetHealthStatus(healthy, message, stub).stub_mode

====
